---------------------------- MODULE Spec2Model ----------------------------
(***************************************************************************)
(* passport-slack: lib/passport-slack/strategy.js                          *)
(*                                                                         *)
(* One shared Strategy instance, several login attempts.  Each attempt     *)
(* calls the wrapped _oauth2.getOAuthAccessToken, the underlying OAuth2    *)
(* client completes the exchange, the strategy's userProfile builds the    *)
(* users.info request from this.params, and the response is handed to the  *)
(* callback of this.get, which calls done.                                 *)
(*                                                                         *)
(* JavaScript values are modelled as functions with string domains: an     *)
(* object is a record of its own properties, a primitive p is the record   *)
(* [prim |-> p].  Argument lists of a continuation are tuples of values.   *)
(***************************************************************************)
EXTENDS Naturals, Sequences, FiniteSets

VARIABLES
    pc,         \* per attempt: where the login attempt stands
    params,     \* this.params of the shared strategy instance
    exchange,   \* per attempt: what the underlying exchange completed with
    cbCalls,    \* per attempt: invocations of the caller's callback (argument tuples)
    request,    \* per attempt: the request userProfile handed to _oauth2._request
    readParams, \* per attempt: the value of this.params that userProfile read
    resp,       \* per attempt: (err, body) the transport handed to get's callback
    parsed,     \* per attempt: whether JSON.parse was applied to the body
    doneCalls,  \* per attempt: invocations of done (argument tuples)
    exchangeCalls,    \* per attempt: calls of the underlying getOAuthAccessToken
    userProfileCalls, \* per attempt: calls of userProfile
    given,      \* the options argument the constructor was called with
    strategy,   \* the instance's configuration: options, _team, _user_scope, name
    authCall    \* the last authorizationParams call: its argument and its result

flowVars == <<pc, params, exchange, cbCalls, request, readParams, resp, parsed, doneCalls, exchangeCalls, userProfileCalls>>

configVars == <<given, strategy, authCall>>

vars == <<flowVars, configVars>>

---------------------------------------------------------------------------
(* JavaScript values *)

Prim(s) == [prim |-> s]

Undefined == Prim("undefined")

Null == Prim("null")

JSTrue == Prim("true")

JSFalse == Prim("false")

IsObject(v) == "prim" \notin DOMAIN v

Nullish(v) == v = Undefined \/ v = Null

\* ToBoolean: what `if (v)` and `!v` test
Truthy(v) == IsObject(v) \/ v.prim \notin {"undefined", "null", "false", ""}

\* o.k for a non-nullish o: an absent property reads as undefined
Prop(o, k) == IF k \in DOMAIN o /\ IsObject(o) THEN o[k] ELSE Undefined

\* o.k = v
SetProp(o, k, v) == [x \in DOMAIN o \cup {k} |-> IF x = k THEN v ELSE o[x]]

\* String(v), as a template literal `${v}` converts it
TemplateString(v) == IF IsObject(v) THEN "[object Object]" ELSE v.prim

\* an array with the given elements
JSArray(items) == [items |-> items]

\* Array.isArray(v)
IsArray(v) == "items" \in DOMAIN v

RECURSIVE Join(_, _)

\* the strings of s with sep between neighbours
Join(s, sep) ==
    IF Len(s) = 0 THEN ""
    ELSE IF Len(s) = 1 THEN s[1]
    ELSE s[1] \o sep \o Join(Tail(s), sep)

\* a.join(sep) for an array of strings
ArrayJoin(a, sep) == Prim(Join([i \in 1..Len(a.items) |-> TemplateString(a.items[i])], sep))

\* a || b
OrElse(a, b) == IF Truthy(a) THEN a ELSE b

\* the exceptions the runtime raises
TypeError == [name |-> Prim("TypeError")]

SyntaxError == [name |-> Prim("SyntaxError")]

\* an exception raised by the host's done continuation
DoneException == [name |-> Prim("Error"), message |-> Prim("verify failed")]

---------------------------------------------------------------------------
(* Inputs: what the OAuth2 client and the provider can deliver *)

Attempts == {"A", "B"}

TopTokens == {"bot-1", "bot-2"}

\* authed_user of an exchange response; the last one carries the same
\* token value as a top-level token
AuthedUsers ==
    { [id |-> Prim("U1"), access_token |-> Prim("user-1")],
      [id |-> Prim("U2"), access_token |-> Prim("user-2")],
      [id |-> Prim("U1"), access_token |-> Prim("bot-1")] }

RefreshTokens == {Undefined, Prim("refresh-1")}

\* well-formed oauth.v2.access payloads
GoodParams == { [access_token |-> Prim(t), authed_user |-> u] : t \in TopTokens, u \in AuthedUsers }

\* payloads without authed_user
BadParams == { [access_token |-> Prim("bot-1")] }

ExchangeErrors ==
    { [name |-> Prim("Error"), code |-> Prim("ECONNREFUSED")],
      [statusCode |-> Prim("400"), data |-> Prim("invalid_code")] }

\* (err, accessToken, refreshToken, params) as the underlying
\* getOAuthAccessToken hands them to its callback
ExchangeOutcomes ==
    { [err |-> e, accessToken |-> Undefined, refreshToken |-> Undefined, params |-> Undefined] : e \in ExchangeErrors }
    \cup
    { [err |-> Null, accessToken |-> Prop(p, "access_token"), refreshToken |-> r, params |-> p] :
        p \in GoodParams \cup BadParams, r \in RefreshTokens }

NoOutcome == [err |-> Undefined]

\* response bodies of users.info, as the text on the wire
BodyFull == "{\"ok\":true,\"user\":{\"id\":\"U1\",\"real_name\":\"Ada\",\"profile\":{\"email\":\"a@x.com\"}}}"

BodyNoEmail == "{\"ok\":true,\"user\":{\"id\":\"U2\",\"real_name\":\"Bob\",\"profile\":{}}}"

BodyNoProfile == "{\"ok\":true,\"user\":{\"id\":\"U1\",\"real_name\":\"Ada\"}}"

BodyNoUser == "{\"ok\":true}"

BodyError == "{\"ok\":false,\"error\":\"user_not_found\"}"

BodyErrorNoOk == "{\"error\":\"invalid_auth\"}"

BodyEmptyError == "{\"ok\":false,\"error\":\"\"}"

BodyNotOk == "{\"ok\":false}"

BodyNotOkUser == "{\"ok\":false,\"id\":\"X9\",\"user\":{\"id\":\"U1\",\"real_name\":\"Ada\",\"profile\":{\"email\":\"a@x.com\"}}}"

BodyEmptyObject == "{}"

BodyNull == "null"

BodyHtml == "<html>502 Bad Gateway</html>"

BodyTruncated == "{\"ok\":true,\"user\":{\"id\""

\* String(undefined): what JSON.parse sees when no body was delivered
BodyMissing == "undefined"

JSONTexts ==
    { BodyFull, BodyNoEmail, BodyNoProfile, BodyNoUser, BodyError, BodyErrorNoOk,
      BodyEmptyError, BodyNotOk, BodyNotOkUser, BodyEmptyObject, BodyNull }

Bodies == JSONTexts \cup {BodyHtml, BodyTruncated, BodyMissing}

TransportErrors ==
    { [name |-> Prim("Error"), code |-> Prim("ECONNRESET")],
      [statusCode |-> Prim("500"), data |-> Prim("oops")] }

\* (err, body) as _oauth2._request hands them to get's callback
Responses ==
    { [err |-> Null, body |-> b] : b \in Bodies }
    \cup
    { [err |-> e, body |-> b] : e \in TransportErrors, b \in {BodyMissing, BodyFull} }

NoResponse == [err |-> Undefined]

NoRequest == [method |-> "none"]

---------------------------------------------------------------------------
(* JSON.parse *)

AdaUser == [id |-> Prim("U1"), real_name |-> Prim("Ada"), profile |-> [email |-> Prim("a@x.com")]]

Parseable(body) == body \in JSONTexts

\* the value JSON.parse(body) returns for a parseable body
JSONparse(body) ==
    CASE body = BodyFull -> [ok |-> JSTrue, user |-> AdaUser]
      [] body = BodyNoEmail -> [ok |-> JSTrue, user |-> [id |-> Prim("U2"), real_name |-> Prim("Bob"), profile |-> <<>>]]
      [] body = BodyNoProfile -> [ok |-> JSTrue, user |-> [id |-> Prim("U1"), real_name |-> Prim("Ada")]]
      [] body = BodyNoUser -> [ok |-> JSTrue]
      [] body = BodyError -> [ok |-> JSFalse, error |-> Prim("user_not_found")]
      [] body = BodyErrorNoOk -> [error |-> Prim("invalid_auth")]
      [] body = BodyEmptyError -> [ok |-> JSFalse, error |-> Prim("")]
      [] body = BodyNotOk -> [ok |-> JSFalse]
      [] body = BodyNotOkUser -> [ok |-> JSFalse, id |-> Prim("X9"), user |-> AdaUser]
      [] body = BodyEmptyObject -> <<>>
      [] body = BodyNull -> Null

---------------------------------------------------------------------------
(* Strategy: the constructor's options (strategy.js 47-56) *)

DefaultTokenURL == Prim("https://slack.com/api/oauth.v2.access")

DefaultAuthorizationURL == Prim("https://slack.com/oauth/v2/authorize")

\* the scope the doc comment of the constructor names as the default (24-25)
DocumentedDefaultScope ==
    JSArray(<<Prim("identity.basic"), Prim("identity.email"), Prim("identity.avatar"), Prim("identity.team")>>)

\* o with property k set to v, or o itself when the caller leaves k out
With(o, k, v) == IF v = Undefined THEN o ELSE SetProp(o, k, v)

Credentials ==
    [ clientID |-> Prim("123-456-789"),
      clientSecret |-> Prim("shhh-its-a-secret"),
      callbackURL |-> Prim("https://www.example.net/auth/slack/callback") ]

GivenScopes == {Undefined, JSArray(<<Prim("identity.basic"), Prim("channels:read")>>)}

GivenTeams == {Undefined, Prim("T1")}

GivenUserScopes ==
    { Undefined, Prim("a b"), JSArray(<<Prim("a"), Prim("b")>>),
      JSArray(<<Prim("users:read")>>), JSArray(<< >>) }

GivenTokenURLs == {Undefined, Prim("https://proxy.example.net/token")}

GivenAuthorizationURLs == {Undefined, Prim("https://proxy.example.net/authorize")}

GivenNames == {Undefined, Prim("slack-admin")}

\* the options objects an application may construct the strategy with
ConstructorOptions ==
    { With(With(With(With(With(With(Credentials, "scope", s), "team", t), "user_scope", u),
                     "tokenURL", tu), "authorizationURL", au), "name", n) :
        s \in GivenScopes, t \in GivenTeams, u \in GivenUserScopes,
        tu \in GivenTokenURLs, au \in GivenAuthorizationURLs, n \in GivenNames }

\* lines 48-51: the options object handed on to OAuth2Strategy
StrategyOptions(options) ==
    LET o0 == OrElse(options, << >>)
        o1 == SetProp(o0, "tokenURL", OrElse(Prop(o0, "tokenURL"), DefaultTokenURL))
    IN  SetProp(o1, "authorizationURL", OrElse(Prop(o1, "authorizationURL"), DefaultAuthorizationURL))

\* lines 47-56: the instance's configuration after construction
Strategy(options) ==
    LET o == StrategyOptions(options)
    IN  [ options |-> o,
          team |-> Prop(o, "team"),
          user_scope |-> Prop(o, "user_scope"),
          name |-> OrElse(Prop(o, "name"), Prim("slack")) ]

---------------------------------------------------------------------------
(* Strategy.prototype.authorizationParams (strategy.js 133-144) *)

\* the per-request options passport hands to authorizationParams
RequestOptions == { << >>, [team |-> Prim("T2")], [team |-> Prim("")], [team |-> Prim("T2"), state |-> Prim("xyz")] }

\* the configured team taking precedence over the request's, scopes joined by commas
authorizationParamsConfigFirst(options, team, user_scope) ==
    LET t == OrElse(team, Prop(options, "team"))
        p1 == IF Truthy(t) THEN SetProp(<< >>, "team", t) ELSE << >>
    IN  IF Truthy(user_scope)
        THEN SetProp(p1, "user_scope", IF IsArray(user_scope) THEN ArrayJoin(user_scope, ",") ELSE user_scope)
        ELSE p1

\* lines 133-144, with this._team and this._user_scope as team and user_scope
authorizationParams(options, team, user_scope) ==
    LET t == OrElse(Prop(options, "team"), team)
        p1 == IF Truthy(t) THEN SetProp(<< >>, "team", t) ELSE << >>
    IN  IF Truthy(user_scope)
        THEN SetProp(p1, "user_scope", IF IsArray(user_scope) THEN ArrayJoin(user_scope, " ") ELSE user_scope)
        ELSE p1

NoCall == [called |-> FALSE]

---------------------------------------------------------------------------
(* Strategy: the getOAuthAccessToken wrapper (strategy.js 58-68) *)

\* the exchange's own access token delivered, the swap left out
NoSwap(accessToken, p) == accessToken

\* line 65: accessToken = params.authed_user.access_token
SwappedAccessToken(accessToken, p) == Prop(Prop(p, "authed_user"), "access_token")

\* line 65 raises a TypeError when params.authed_user is undefined or null
SwapThrows(p) == Nullish(p) \/ Nullish(Prop(p, "authed_user"))

\* the error branch forwarding every argument of the inner callback
ForwardAllOnError(err, accessToken, refreshToken, p) ==
    IF Truthy(err) THEN << <<err, accessToken, refreshToken, p>> >>
    ELSE IF Nullish(p) \/ Nullish(Prop(p, "authed_user")) THEN << >>
    ELSE << <<Null, Prop(Prop(p, "authed_user"), "access_token"), refreshToken, p>> >>

\* lines 62 and 66: the invocations of the caller's callback, in order
WrappedCallback(err, accessToken, refreshToken, p) ==
    IF Truthy(err) THEN << <<err>> >>
    ELSE IF SwapThrows(p) THEN << >>
    ELSE << <<Null, SwappedAccessToken(accessToken, p), refreshToken, p>> >>

\* the assignment of line 64 made before the error test of line 62
StoreBeforeErrorTest(selfParams, err, p) == p

\* lines 62-64: this.params after the inner callback ran
StoredParams(selfParams, err, p) == IF Truthy(err) THEN selfParams ELSE p

\* the error of the exchange reported to the caller as a success
ProceedOnError(err, p) ==
    IF Truthy(err) THEN "TokenExchanged"
    ELSE IF Nullish(p) \/ Nullish(Prop(p, "authed_user")) THEN "Threw"
    ELSE "TokenExchanged"

\* where the attempt stands once the inner callback returned or threw
AfterExchange(err, p) ==
    IF Truthy(err) THEN "Failed"
    ELSE IF SwapThrows(p) THEN "Threw"
    ELSE "TokenExchanged"

---------------------------------------------------------------------------
(* Strategy.prototype.userProfile and Strategy.prototype.get (89-124) *)

UsersInfo == "https://slack.com/api/users.info"

\* the request authenticated with the accessToken argument
UrlWithArgumentToken(selfParams, accessToken) ==
    [ endpoint |-> "https://slack.com/api/users.info",
      user |-> TemplateString(Prop(Prop(selfParams, "authed_user"), "id")),
      token |-> TemplateString(accessToken) ]

\* the request authenticated with the stored response's user-level token
UrlWithUserToken(selfParams, accessToken) ==
    [ endpoint |-> "https://slack.com/api/users.info",
      user |-> TemplateString(Prop(Prop(selfParams, "authed_user"), "id")),
      token |-> TemplateString(Prop(Prop(selfParams, "authed_user"), "access_token")) ]

\* line 90: the template literal, as endpoint and query parameters
ProfileUrl(selfParams, accessToken) ==
    [ endpoint |-> UsersInfo,
      user |-> TemplateString(Prop(Prop(selfParams, "authed_user"), "id")),
      token |-> TemplateString(Prop(selfParams, "access_token")) ]

\* line 90 raises a TypeError when this.params or this.params.authed_user
\* is undefined or null
UrlThrows(selfParams) == Nullish(selfParams) \/ Nullish(Prop(selfParams, "authed_user"))

\* the request as the OAuth2 client's own get helper issues it: the token in
\* an Authorization header and as the access_token argument as well
getWithAuthorizationHeader(url) ==
    [ method |-> "GET", url |-> url, headers |-> [Authorization |-> "Bearer " \o url.token],
      post_body |-> "", access_token |-> url.token ]

\* lines 122-124: this._oauth2._request('GET', url, {}, '', '', callback)
get(url) == [method |-> "GET", url |-> url, headers |-> <<>>, post_body |-> "", access_token |-> ""]

\* a done(...) inside the try block: an exception raised by done is caught
\* on line 112 and done is invoked again with it on line 113
DoneInTry(args, doneThrows) == IF doneThrows THEN <<args, <<DoneException>>>> ELSE <<args>>

\* lines 106-108 raise a TypeError when profile.user or profile.user.profile
\* is undefined or null
NormalizeThrows(profile) ==
    \/ Nullish(Prop(profile, "user"))
    \/ Nullish(Prop(Prop(profile, "user"), "profile"))

\* displayName taken from user.name instead of user.real_name
NormalizeWithUserName(profile) ==
    LET p1 == SetProp(profile, "provider", Prim("Slack"))
        p2 == SetProp(p1, "id", Prop(Prop(p1, "user"), "id"))
        p3 == SetProp(p2, "displayName", Prop(Prop(p2, "user"), "name"))
    IN  SetProp(p3, "email", Prop(Prop(Prop(p3, "user"), "profile"), "email"))

\* lines 105-108
Normalize(profile) ==
    LET p1 == SetProp(profile, "provider", Prim("Slack"))
        p2 == SetProp(p1, "id", Prop(Prop(p1, "user"), "id"))
        p3 == SetProp(p2, "displayName", Prop(Prop(p2, "user"), "real_name"))
    IN  SetProp(p3, "email", Prop(Prop(Prop(p3, "user"), "profile"), "email"))

\* the provider error handed over together with the payload
HandleProfileErrorWithPayload(profile, doneThrows) ==
    IF Nullish(profile) THEN << <<TypeError>> >>
    ELSE IF ~Truthy(Prop(profile, "ok"))
         THEN IF Truthy(Prop(profile, "error"))
              THEN DoneInTry(<<Prop(profile, "error"), profile>>, doneThrows)
              ELSE DoneInTry(<<Null, profile>>, doneThrows)
         ELSE IF NormalizeThrows(profile)
              THEN << <<TypeError>> >>
              ELSE DoneInTry(<<Null, Normalize(profile)>>, doneThrows)

\* the unacknowledged payload stamped with the provider name
HandleProfileStampUnacknowledged(profile, doneThrows) ==
    IF Nullish(profile) THEN << <<TypeError>> >>
    ELSE IF ~Truthy(Prop(profile, "ok"))
         THEN IF Truthy(Prop(profile, "error"))
              THEN DoneInTry(<<Prop(profile, "error")>>, doneThrows)
              ELSE DoneInTry(<<Null, SetProp(profile, "provider", Prim("Slack"))>>, doneThrows)
         ELSE IF NormalizeThrows(profile)
              THEN << <<TypeError>> >>
              ELSE DoneInTry(<<Null, Normalize(profile)>>, doneThrows)

\* lines 97-111: the body of the try block once JSON.parse returned profile
HandleProfile(profile, doneThrows) ==
    IF Nullish(profile) THEN << <<TypeError>> >>
    ELSE IF ~Truthy(Prop(profile, "ok"))
         THEN IF Truthy(Prop(profile, "error"))
              THEN DoneInTry(<<Prop(profile, "error")>>, doneThrows)
              ELSE DoneInTry(<<Null, profile>>, doneThrows)
         ELSE IF NormalizeThrows(profile)
              THEN << <<TypeError>> >>
              ELSE DoneInTry(<<Null, Normalize(profile)>>, doneThrows)

\* the catch block replacing the exception by a generic error
HandleResponseGenericParseError(err, body, doneThrows) ==
    IF Truthy(err) THEN [done |-> << <<err>> >>, parsed |-> FALSE]
    ELSE IF ~Parseable(body)
         THEN [done |-> << <<[name |-> Prim("Error"), message |-> Prim("Failed to parse user profile")]>> >>, parsed |-> TRUE]
    ELSE [done |-> HandleProfile(JSONparse(body), doneThrows), parsed |-> TRUE]

\* the transport error tested only after the body went through the try block
HandleResponseParseFirst(err, body, doneThrows) ==
    IF ~Parseable(body) THEN [done |-> << <<SyntaxError>> >>, parsed |-> TRUE]
    ELSE IF Truthy(err) THEN [done |-> << <<err>> >>, parsed |-> TRUE]
    ELSE [done |-> HandleProfile(JSONparse(body), doneThrows), parsed |-> TRUE]

\* lines 92-116: the callback handed to this.get; the invocations of done,
\* in order, and whether JSON.parse ran
HandleResponse(err, body, doneThrows) ==
    IF Truthy(err) THEN [done |-> << <<err>> >>, parsed |-> FALSE]
    ELSE IF ~Parseable(body) THEN [done |-> << <<SyntaxError>> >>, parsed |-> TRUE]
    ELSE [done |-> HandleProfile(JSONparse(body), doneThrows), parsed |-> TRUE]

\* where the attempt stands once done was first invoked
AfterResponse(calls) == IF Len(calls[1]) = 2 /\ calls[1][1] = Null THEN "Done" ELSE "Failed"

---------------------------------------------------------------------------
(* The state machine *)

Init ==
    /\ pc = [a \in Attempts |-> "Started"]
    /\ params = Undefined
    /\ exchange = [a \in Attempts |-> NoOutcome]
    /\ cbCalls = [a \in Attempts |-> << >>]
    /\ request = [a \in Attempts |-> NoRequest]
    /\ readParams = [a \in Attempts |-> Undefined]
    /\ resp = [a \in Attempts |-> NoResponse]
    /\ parsed = [a \in Attempts |-> FALSE]
    /\ doneCalls = [a \in Attempts |-> << >>]
    /\ exchangeCalls = [a \in Attempts |-> 0]
    /\ userProfileCalls = [a \in Attempts |-> 0]
    /\ given = Credentials
    /\ strategy = Strategy(Credentials)
    /\ authCall = NoCall

\* the accessToken argument the caller's callback received (undefined
\* when the callback was invoked with the error alone)
DeliveredAccessToken(calls) ==
    IF Len(calls) >= 1 /\ Len(calls[1]) >= 2 THEN calls[1][2] ELSE Undefined

\* line 60-61: the wrapper delegates to the client's own getOAuthAccessToken
getOAuthAccessToken(a) ==
    /\ pc[a] = "Started"
    /\ pc' = [pc EXCEPT ![a] = "CodeReceived"]
    /\ exchangeCalls' = [exchangeCalls EXCEPT ![a] = @ + 1]
    /\ UNCHANGED <<params, exchange, cbCalls, request, readParams, resp, parsed, doneCalls, userProfileCalls>>
    /\ UNCHANGED configVars

\* lines 61-67: the underlying exchange completes and the inner callback runs
ExchangeCompletes(a) ==
    /\ pc[a] = "CodeReceived"
    /\ \E r \in ExchangeOutcomes :
        /\ exchange' = [exchange EXCEPT ![a] = r]
        /\ params' = StoredParams(params, r.err, r.params)
        /\ cbCalls' = [cbCalls EXCEPT ![a] = WrappedCallback(r.err, r.accessToken, r.refreshToken, r.params)]
        /\ pc' = [pc EXCEPT ![a] = AfterExchange(r.err, r.params)]
    /\ UNCHANGED <<request, readParams, resp, parsed, doneCalls, exchangeCalls, userProfileCalls>>
    /\ UNCHANGED configVars

\* lines 89-92: the OAuth2 strategy loads the profile with the access token
\* its callback received; this may happen any time after that callback
userProfile(a) ==
    /\ pc[a] = "TokenExchanged"
    /\ readParams' = [readParams EXCEPT ![a] = params]
    /\ IF UrlThrows(params)
       THEN /\ pc' = [pc EXCEPT ![a] = "Threw"]
            /\ UNCHANGED request
       ELSE /\ pc' = [pc EXCEPT ![a] = "Fetching"]
            /\ request' = [request EXCEPT ![a] = get(ProfileUrl(params, DeliveredAccessToken(cbCalls[a])))]
    /\ userProfileCalls' = [userProfileCalls EXCEPT ![a] = @ + 1]
    /\ UNCHANGED <<params, exchange, cbCalls, resp, parsed, doneCalls, exchangeCalls>>
    /\ UNCHANGED configVars

\* lines 92-116: the request completes and get's callback runs
ResponseArrives(a) ==
    /\ pc[a] = "Fetching"
    /\ \E r \in Responses, doneThrows \in BOOLEAN :
        LET h == HandleResponse(r.err, r.body, doneThrows)
        IN  /\ resp' = [resp EXCEPT ![a] = r]
            /\ doneCalls' = [doneCalls EXCEPT ![a] = h.done]
            /\ parsed' = [parsed EXCEPT ![a] = h.parsed]
            /\ pc' = [pc EXCEPT ![a] = AfterResponse(h.done)]
    /\ UNCHANGED <<params, exchange, cbCalls, request, readParams, exchangeCalls, userProfileCalls>>
    /\ UNCHANGED configVars

Next ==
    \E a \in Attempts :
        \/ getOAuthAccessToken(a)
        \/ ExchangeCompletes(a)
        \/ userProfile(a)
        \/ ResponseArrives(a)

Spec == Init /\ [][Next]_vars

---------------------------------------------------------------------------
(* Construction and authorizationParams over the options an application
   may pass; no login attempt is under way *)

InitConfig ==
    /\ pc = [a \in Attempts |-> "Started"]
    /\ params = Undefined
    /\ exchange = [a \in Attempts |-> NoOutcome]
    /\ cbCalls = [a \in Attempts |-> << >>]
    /\ request = [a \in Attempts |-> NoRequest]
    /\ readParams = [a \in Attempts |-> Undefined]
    /\ resp = [a \in Attempts |-> NoResponse]
    /\ parsed = [a \in Attempts |-> FALSE]
    /\ doneCalls = [a \in Attempts |-> << >>]
    /\ exchangeCalls = [a \in Attempts |-> 0]
    /\ userProfileCalls = [a \in Attempts |-> 0]
    /\ given \in ConstructorOptions
    /\ strategy = Strategy(given)
    /\ authCall = NoCall

\* lines 133-144: passport asks for the extra authorization parameters
AuthorizationParams ==
    /\ \E o \in RequestOptions :
        authCall' = [called |-> TRUE, options |-> o,
                     result |-> authorizationParams(o, strategy.team, strategy.user_scope)]
    /\ UNCHANGED <<given, strategy>>
    /\ UNCHANGED flowVars

NextConfig == AuthorizationParams

SpecConfig == InitConfig /\ [][NextConfig]_vars

---------------------------------------------------------------------------
(* Properties *)

\* the attempt's exchange completed without an error
ExchangeSucceeded(a) == exchange[a] # NoOutcome /\ ~Truthy(exchange[a].err)

\* the attempt's exchange completed with an error
ExchangeFailed(a) == exchange[a] # NoOutcome /\ Truthy(exchange[a].err)

\* userProfile handed a request to the transport
Requested(a) == request[a] # NoRequest

\* the transport answered and the body parsed to an object
ParsedObject(a) ==
    /\ resp[a] # NoResponse
    /\ ~Truthy(resp[a].err)
    /\ Parseable(resp[a].body)
    /\ ~Nullish(JSONparse(resp[a].body))

\* C1: every access token the wrapper delivers after a successful exchange
\* is that exchange response's authed_user.access_token, and is not the
\* response's top-level access_token when the two differ.
C1_DeliversUserToken ==
    \A a \in Attempts :
        ExchangeSucceeded(a) =>
            \A i \in 1..Len(cbCalls[a]) :
                LET args == cbCalls[a][i]
                    top == exchange[a].params.access_token
                    nested == exchange[a].params.authed_user.access_token
                IN  /\ Len(args) = 4
                    /\ args[1] = Null
                    /\ args[2] = nested
                    /\ (nested # top => args[2] # top)

C1_Witness ==
    \E a \in Attempts :
        /\ ExchangeSucceeded(a)
        /\ Len(cbCalls[a]) = 1
        /\ exchange[a].params.access_token = Prim("bot-1")
        /\ cbCalls[a][1][2] = Prim("user-1")

\* C2: the request an attempt's userProfile builds carries the authed_user.id
\* and the top-level access_token of that attempt's own exchange response,
\* whatever the other attempt did in between.
C2_OwnExchangeResponse ==
    \A a \in Attempts :
        Requested(a) =>
            /\ request[a].url.user = exchange[a].params.authed_user.id.prim
            /\ request[a].url.token = exchange[a].params.access_token.prim

\* C3: every profile request targets users.info with user = authed_user.id
\* and token = top-level access_token of the exchange response stored in
\* this.params when userProfile ran; the accessToken argument is not used.
C3_RequestFromStoredResponse ==
    \A a \in Attempts :
        Requested(a) =>
            /\ request[a].method = "GET"
            /\ request[a].url.endpoint = "https://slack.com/api/users.info"
            /\ request[a].url.user = readParams[a].authed_user.id.prim
            /\ request[a].url.token = readParams[a].access_token.prim
            /\ (cbCalls[a][1][2] # readParams[a].access_token
                    => request[a].url.token # cbCalls[a][1][2].prim)

C3_Witness ==
    \E a \in Attempts :
        /\ Requested(a)
        /\ cbCalls[a][1][2] = Prim("user-2")
        /\ request[a].url.user = "U2"
        /\ request[a].url.token = "bot-1"

\* C4 as stated: the token of every profile request is the user-level token
\* nested under authed_user of the attempt's exchange response.
C4_UserLevelToken ==
    \A a \in Attempts :
        Requested(a) => request[a].url.token = exchange[a].params.authed_user.access_token.prim

\* C4 amended: the token of every profile request is the top-level access_token
\* of the exchange response held in this.params when the request was built,
\* and is not that response's user-level token unless the two are the same value.
C4_TopLevelToken ==
    \A a \in Attempts :
        Requested(a) =>
            LET top == readParams[a].access_token
                nested == readParams[a].authed_user.access_token
            IN  /\ request[a].url.token = top.prim
                /\ (nested # top => request[a].url.token # nested.prim)

C4_Witness ==
    \E a \in Attempts :
        /\ Requested(a)
        /\ readParams[a].authed_user.access_token = Prim("user-1")
        /\ request[a].url.token = "bot-2"

\* the payload is acknowledged and has a user with id, real_name and profile
Acknowledged(a) ==
    /\ ParsedObject(a)
    /\ LET payload == JSONparse(resp[a].body)
       IN  /\ Prop(payload, "ok") = JSTrue
           /\ "user" \in DOMAIN payload
           /\ {"id", "real_name", "profile"} \subseteq DOMAIN payload.user
           /\ IsObject(payload.user.profile)

\* C5: for an acknowledged response whose user has id, real_name and profile,
\* done is first invoked with (null, profile), where provider is 'Slack', id is
\* user.id, displayName is user.real_name and email reads as user.profile.email
\* (undefined when the payload has none).
C5_NormalizedProfile ==
    \A a \in Attempts :
        Acknowledged(a) =>
            LET user == JSONparse(resp[a].body).user
                call == doneCalls[a][1]
            IN  /\ Len(call) = 2
                /\ call[1] = Null
                /\ call[2].provider = Prim("Slack")
                /\ call[2].id = user.id
                /\ call[2].displayName = user.real_name
                /\ call[2].email = (IF "email" \in DOMAIN user.profile THEN user.profile.email ELSE Undefined)

C5_Witness ==
    \E a, b \in Attempts :
        /\ Acknowledged(a) /\ Acknowledged(b)
        /\ resp[a].body = BodyFull
        /\ doneCalls[a][1][2].displayName = Prim("Ada")
        /\ doneCalls[a][1][2].email = Prim("a@x.com")
        /\ resp[b].body = BodyNoEmail
        /\ doneCalls[b][1][2].id = Prim("U2")
        /\ doneCalls[b][1][2].email = Undefined

\* the payload is not acknowledged and carries a truthy error
ProviderError(a) ==
    /\ ParsedObject(a)
    /\ ~Truthy(Prop(JSONparse(resp[a].body), "ok"))
    /\ Truthy(Prop(JSONparse(resp[a].body), "error"))

\* C6: for a parsed response with ok false and a truthy error field, done is
\* first invoked with that field's value as its only argument, and no
\* invocation of done carries a profile.
C6_ProviderError ==
    \A a \in Attempts :
        ProviderError(a) =>
            /\ doneCalls[a][1] = <<JSONparse(resp[a].body).error>>
            /\ \A i \in 1..Len(doneCalls[a]) : Len(doneCalls[a][i]) = 1

C6_Witness ==
    \E a \in Attempts :
        /\ ProviderError(a)
        /\ resp[a].body = BodyError
        /\ doneCalls[a] = << <<Prim("user_not_found")>> >>

\* the payload is not acknowledged and has no error field
Unacknowledged(a) ==
    /\ ParsedObject(a)
    /\ ~Truthy(Prop(JSONparse(resp[a].body), "ok"))
    /\ "error" \notin DOMAIN JSONparse(resp[a].body)

Unparseable(a) == resp[a] # NoResponse /\ ~Truthy(resp[a].err) /\ ~Parseable(resp[a].body)

\* C8: for a response without transport error whose body does not parse, done
\* is invoked once, with the parse exception as its only argument.
C8_ParseFailure ==
    \A a \in Attempts :
        Unparseable(a) => doneCalls[a] = << <<SyntaxError>> >>

C8_Witness ==
    \E a \in Attempts :
        /\ Unparseable(a)
        /\ resp[a].body = BodyHtml
        /\ parsed[a]
        /\ doneCalls[a] = << <<SyntaxError>> >>

\* the request failed at the transport level
TransportFailed(a) == resp[a] # NoResponse /\ Truthy(resp[a].err)

\* C9: for a request that fails at the transport level, done is invoked once,
\* with the transport error as its only argument, and the body is not parsed.
C9_TransportError ==
    \A a \in Attempts :
        TransportFailed(a) => doneCalls[a] = << <<resp[a].err>> >> /\ ~parsed[a]

C9_Witness ==
    \E a \in Attempts :
        /\ TransportFailed(a)
        /\ resp[a].body = BodyFull
        /\ doneCalls[a] = << <<[statusCode |-> Prim("500"), data |-> Prim("oops")]>> >>

\* C10: for an exchange that completes with an error, the caller's callback
\* is invoked once, with that error as its only argument.
C10_ExchangeError ==
    \A a \in Attempts :
        ExchangeFailed(a) => cbCalls[a] = << <<exchange[a].err>> >>

C10_Witness ==
    \E a \in Attempts :
        /\ ExchangeFailed(a)
        /\ pc[a] = "Failed"
        /\ cbCalls[a] = << <<[statusCode |-> Prim("400"), data |-> Prim("invalid_code")]>> >>

\* the value of property k of the constructor's argument
Given(k) == IF given = Undefined THEN Undefined ELSE Prop(given, k)

\* a team value that names a team
IsSet(v) == v # Undefined /\ v # Prim("")

\* C11: authorizationParams returns team = options.team when set, else the
\* team given at construction, and no team key when neither is set;
\* user_scope = the configured user scope joined with single spaces when it is
\* an array, the string itself when it is a string, and no user_scope key
\* when none was configured; and no other key.
C11_AuthorizationParams ==
    authCall.called =>
        LET r == authCall.result
            reqTeam == Prop(authCall.options, "team")
            scope == Given("user_scope")
        IN  /\ DOMAIN r \subseteq {"team", "user_scope"}
            /\ IF IsSet(reqTeam) THEN "team" \in DOMAIN r /\ r.team = reqTeam
               ELSE IF IsSet(Given("team")) THEN "team" \in DOMAIN r /\ r.team = Given("team")
               ELSE "team" \notin DOMAIN r
            /\ IF scope = Undefined THEN "user_scope" \notin DOMAIN r
               ELSE IF IsArray(scope)
                    THEN "user_scope" \in DOMAIN r
                         /\ r.user_scope = Prim(Join([i \in 1..Len(scope.items) |-> scope.items[i].prim], " "))
               ELSE "user_scope" \in DOMAIN r /\ r.user_scope = scope

C11_Witness ==
    /\ authCall.called
    /\ Given("team") = Prim("T1")
    /\ Given("user_scope") = JSArray(<<Prim("a"), Prim("b")>>)
    /\ authCall.options = [team |-> Prim("T2"), state |-> Prim("xyz")]
    /\ authCall.result = [team |-> Prim("T2"), user_scope |-> Prim("a b")]

\* C12: every profile request is issued with an empty header set, an empty
\* body and no access-token argument; the token travels in the URL's query only.
C12_TokenInQueryOnly ==
    \A a \in Attempts :
        Requested(a) =>
            /\ request[a].headers = << >>
            /\ request[a].access_token = ""
            /\ request[a].post_body = ""
            /\ request[a].url.token # ""

C12_Witness ==
    \E a \in Attempts :
        /\ Requested(a)
        /\ request[a].method = "GET"
        /\ request[a].url.token = "bot-2"
        /\ DOMAIN request[a].headers = {}

\* C13: constructed without a scope, the strategy is configured with the
\* documented 4-element default scope; a given scope is kept as given.
C13_DefaultScope ==
    /\ Given("scope") = Undefined => Prop(strategy.options, "scope") = DocumentedDefaultScope
    /\ Given("scope") # Undefined => Prop(strategy.options, "scope") = Given("scope")

FailureDelivered(a) ==
    \/ \E i \in 1..Len(cbCalls[a]) : Truthy(cbCalls[a][i][1])
    \/ \E i \in 1..Len(doneCalls[a]) : Truthy(doneCalls[a][i][1])

\* C15: an attempt issues at most one exchange call and one profile request,
\* stands at Started, CodeReceived, TokenExchanged, ProfileFetched (request in
\* flight) or Done, or else at Failed with its failure delivered to a
\* continuation.
C15_AttemptStateMachine ==
    \A a \in Attempts :
        /\ exchangeCalls[a] <= 1
        /\ userProfileCalls[a] <= 1
        /\ pc[a] \notin {"Started", "CodeReceived", "TokenExchanged", "Fetching", "Done"}
              => pc[a] = "Failed" /\ FailureDelivered(a)

\* C16: once an attempt has reached Done or Failed, this.params no longer
\* holds that attempt's exchange response.
C16_AttemptScoped ==
    \A a \in Attempts :
        (pc[a] \in {"Done", "Failed"} /\ ExchangeSucceeded(a)) => params # exchange[a].params

\* C17: for every attempt whose profile reaches the host (done(null, profile)),
\* the user id requested from users.info is the authed_user.id of the
\* exchange response that supplied the delivered access token.
C17_ProfileMatchesToken ==
    \A a \in Attempts :
        (Len(doneCalls[a]) >= 1 /\ Len(doneCalls[a][1]) = 2 /\ doneCalls[a][1][1] = Null) =>
            /\ cbCalls[a][1][2] = exchange[a].params.authed_user.access_token
            /\ request[a].url.user = exchange[a].params.authed_user.id.prim

\* C18: once the profile request completed, done has been invoked exactly once.
C18_DoneExactlyOnce ==
    \A a \in Attempts :
        resp[a] # NoResponse => Len(doneCalls[a]) = 1

\* C19: once the underlying exchange completed, the caller's callback has been
\* invoked exactly once, and a response without authed_user is not the one
\* stored in this.params.
C19_CallbackExactlyOnce ==
    \A a \in Attempts :
        exchange[a] # NoOutcome =>
            /\ Len(cbCalls[a]) = 1
            /\ (ExchangeSucceeded(a) /\ SwapThrows(exchange[a].params)) => params # exchange[a].params

\* C20: a step in which an exchange completes with an error leaves this.params
\* as it was; a step in which an exchange completes without error sets it to
\* that exchange's response; no other step changes it.
C20_OnlySuccessfulExchangesStore ==
    [][ /\ \A a \in Attempts :
              exchange'[a] # exchange[a] =>
                  IF Truthy(exchange'[a].err) THEN params' = params
                  ELSE params' = exchange'[a].params
        /\ (\A a \in Attempts : exchange'[a] = exchange[a]) => params' = params ]_vars

C20_Witness ==
    \E a, b \in Attempts :
        /\ ExchangeFailed(a)
        /\ ExchangeSucceeded(b)
        /\ params = exchange[b].params
        /\ pc[b] = "Fetching"

====
